---- MODULE Spec2Model ----
(***************************************************************************)
(* Model of ros/src/twist_controller/dbw_node.py: the drive-by-wire node.  *)
(* Five subscriber callbacks overwrite the stored inputs; DBWNode.loop     *)
(* runs one iteration per period: it checks that a path and a velocity     *)
(* have arrived, computes the cross-track error, calls the controller,     *)
(* updates the deceleration bookkeeping and, when drive-by-wire is         *)
(* enabled, publishes the commands that differ from the stored previous    *)
(* values.                                                                 *)
(*                                                                         *)
(* Threads.  rospy runs every callback in a thread of its own and loop()   *)
(* in the main thread, with no lock between them.  A step of the model is  *)
(* one assignment of a callback, or the part of an iteration of loop()     *)
(* that holds one read of a field a callback writes; what lies between     *)
(* two such reads touches only locals and fields that loop() alone writes. *)
(*                                                                         *)
(* Units.  Positions are whole metres.  The components of an orientation   *)
(* quaternion, the CTE and the coefficients shown of a fit are in          *)
(* thousandths (1000 = 1.0); the fit itself is kept as exact fractions.    *)
(* Angles returned by atan2 are in microradians.  The clock counts half    *)
(* milliseconds (ClockHz ticks per second).  Commands and speeds are       *)
(* small naturals.                                                         *)
(*                                                                         *)
(* Specifications.  Spec is the node with one message per topic but        *)
(* /final_waypoints.  SpecWire is Spec together with the value last        *)
(* published on each actuator topic.  SpecSteps follows one iteration      *)
(* while two different messages arrive on each of /current_pose,           *)
(* /current_velocity and /twist_cmd.  SpecCTE applies Compute_CTE, and the  *)
(* call of the controller after it, to paths and poses at every quarter    *)
(* turn of the yaw, with no callback beside them.                          *)
(***************************************************************************)
EXTENDS Integers, Sequences, FiniteSets

(* ---------------- bounds of the model ---------------- *)

\* number of loop iterations explored
MaxTicks == 2
\* largest value the controller returns on a channel
MaxCmd == 1

(* ---------------- program constants ---------------- *)

\* self.wheel_radius default 0.2413 m, in 1e-4 m
WheelRadiusE4 == 2413
\* self.vehicle_mass default 1736.35 kg, in 1e-2 kg
VehicleMassE2 == 173635
\* clock units per second: one unit is 0.5 ms
ClockHz == 2000
\* the period of rospy.Rate(10) in clock units (dbw_node.py:86)
Period == 200
\* 1e-3 s in clock units (dbw_node.py:122)
DtMin == 2
\* 0.1 s in clock units (dbw_node.py:123)
DtFallback == 200
\* 5.0 in thousandths (dbw_node.py:234-237)
CTELimit == 5000
\* math.pi/2 in microradians (dbw_node.py:226-229)
HalfPi == 1570796

\* Python None, and a field that holds an object: a field is either None or
\* Some(v), and Val gives v back
None == << >>
Some(v) == << v >>
Val(field) == field[1]
\* float nan, kept apart from every number the model uses
NaN == -999999999

Channels == {"throttle", "steer", "brake"}

\* an exact fraction; den = 0 stands for what no float of the model's range
\* holds: 0/0 is nan, and n/0 with n # 0 a value of the sign of n whose
\* magnitude is beyond 1e12
Ratio(n, d) == [num |-> n, den |-> d]

(* ---------------- messages the environment can send ---------------- *)

Wp(x, y) == [x |-> x, y |-> y]

PathEmpty == << >>
PathShort == << Wp(1, 0), Wp(2, 1), Wp(3, 0) >>
PathCurve == << Wp(1, 1), Wp(2, 1), Wp(3, 2), Wp(4, 4) >>

\* msg.waypoints of the Lane messages on /final_waypoints: no waypoint,
\* fewer than the four a cubic needs, and four
LaneMsgs == {PathEmpty, PathShort, PathCurve}

\* the z and w components, in thousandths, of the unit quaternion of a
\* rotation about the vertical axis by q quarter turns (x and y are 0): q = 0
\* faces +x, 1 faces +y, 2 faces -x, 3 faces -y
Quat(q) ==
  CASE q % 4 = 0 -> [z |-> 0, w |-> 1000]
    [] q % 4 = 1 -> [z |-> 707, w |-> 707]
    [] q % 4 = 2 -> [z |-> 1000, w |-> 0]
    [] OTHER -> [z |-> -707, w |-> 707]

\* msg.pose of /current_pose: position and orientation
Pose(x, y, q) == [x |-> x, y |-> y, z |-> Quat(q).z, w |-> Quat(q).w]

\* msg.pose.position and msg.pose.orientation of a pose message
Position(msg) == [x |-> msg.x, y |-> msg.y]
Orientation(msg) == [z |-> msg.z, w |-> msg.w]

PoseMsgs == { Pose(5, 0, 2) }

\* msg.twist of /current_velocity
VelMsgs == { [lin |-> 1, ang |-> 4] }

\* msg.twist of /twist_cmd
TwistMsgs == { [lin |-> 2, ang |-> 3] }

\* values the controller can return on one channel
Cmds == 0..MaxCmd

\* how far rospy.get_time() can have advanced from one iteration to the next:
\* not at all (a stalled clock), half a millisecond, or the period of the rate
ClockSteps == {0, 1, Period}

VARIABLES
  finalwpts, dbw_enabled, current_velocity, current_pose, current_orient,
  twist_cmd, CTE, heading_err,
  throttle_prev, steer_prev, brake_prev, brake_new,
  current_velocity_prev, current_velocity_new, prevtime,
  now, pc, ticks, last,
  body, emitted, frame, posecb

inputs == << finalwpts, dbw_enabled, current_velocity, current_pose,
             current_orient, twist_cmd >>
latches == << throttle_prev, steer_prev, brake_prev, brake_new >>
bookkeeping == << current_velocity_prev, current_velocity_new, prevtime >>
estimate == << CTE, heading_err >>
vars == << finalwpts, dbw_enabled, current_velocity, current_pose,
           current_orient, twist_cmd, CTE, heading_err,
           throttle_prev, steer_prev, brake_prev, brake_new,
           current_velocity_prev, current_velocity_new, prevtime,
           now, pc, ticks, last, body, emitted, frame, posecb >>

\* body: the lists x_car_body and y_car_body that Compute_CTE built (lines
\* 190-200), kept where the estimator is examined on its own (SpecCTE)
NoBody == [x |-> << >>, y |-> << >>]

\* emitted: the value most recently published on each channel by
\* self.throttle_pub, self.steer_pub and self.brake_pub (lines 51-53), 0
\* before the first; followed where the actuators are examined (SpecWire)
NothingEmitted == [ch \in Channels |-> 0]

(* ---------------- the record of the latest loop iteration ---------------- *)

NoCmd == [throttle |-> 0, brake |-> 0, steer |-> 0]
NoArgs == << >>
NoFit == [ok |-> FALSE, c |-> Ratio(0, 1), d |-> Ratio(0, 1)]

\* What the latest iteration of the loop did.
\*   kind        "none" before the first iteration, "skipped" when line 88 was
\*               false, "executed" when the body ran to its end, "raised"
\*               when an exception left it
\*   estimator   Compute_CTE was called; fit: what np.polyfit returned in it
\*   controller  controller.control was called; args: its arguments in order
\*   enabled     dbw_status, the flag read at line 94
\*   cmd         the triple the controller returned
\*   sent        the triple handed to publish() (NoCmd when it was not called)
\*   pub         the channels on which a publisher's publish() was called
\*   dt_meas     time - self.prevtime of line 119; dt_used: the dt of line 126
\*   accel_meas, decel_calc   the two estimates, as ratios
Iteration(kind, est, fit, ctl, args, enabled, cmd, sent, pub, dtm, dtu, a, d) ==
  [kind |-> kind, estimator |-> est, fit |-> fit, controller |-> ctl,
   args |-> args, enabled |-> enabled, cmd |-> cmd, sent |-> sent, pub |-> pub,
   dt_meas |-> dtm, dt_used |-> dtu, accel_meas |-> a, decel_calc |-> d]

Idle(kind, est) ==
  Iteration(kind, est, NoFit, FALSE, NoArgs, FALSE, NoCmd, NoCmd, {}, 0, 0,
            Ratio(0, 1), Ratio(0, 1))

\* frame: the local variables of the iteration of loop() in progress, and of
\* its call of Compute_CTE, as far as they were read from fields that a
\* callback writes: the locals of lines 89-92, 183 and 184, the z and w
\* handed to euler_from_quaternion at line 186, the yaw of line 187, the
\* number of waypoints of the path that line 192 read (npts), the result
\* of line 203 and the dbw_status of line 94.  flag_at_gate is
\* self.dbw_enabled as it was when line 129 was reached, which the program
\* does not read.
NoFrame ==
  [proposed_linear_velocity |-> 0, proposed_angular_velocity |-> 0,
   current_linear_velocity |-> 0, current_angular_velocity |-> 0,
   global_car_x |-> 0, global_car_y |-> 0, z |-> 0, w |-> 0, yaw |-> 0,
   npts |-> 0, fit |-> NoFit, dbw_status |-> FALSE, flag_at_gate |-> FALSE]

\* posecb: the message of a CurrPose_cb that has executed line 170 and not
\* yet line 171, None when there is none
stepping == << frame, posecb >>

(* ---------------- DBWNode.Compute_CTE ---------------- *)

\* tf.transformations.euler_from_quaternion([0, 0, z, w])[2], in quarter
\* turns.  quaternion_matrix returns the identity for a quaternion of norm
\* 0, and otherwise normalises it; the yaw is then atan2(2zw, w*w - z*z),
\* where 2zw is +0.0 when either factor is 0.  The quaternions covered are
\* those whose yaw is a whole number of quarter turns: z = 0 (yaw 0, the zero
\* quaternion included), w = 0 (yaw pi), z = w (yaw pi/2) and z = -w (yaw
\* -pi/2); they need not have norm 1.  For z = 0 and for w = 0 the float
\* returned is exactly 0.0 and the double of pi.  For z = w and z = -w it is
\* the double of pi/2 or one a few units in the last place to either side
\* of it, as the rounding of the normalisation has it for the components
\* at hand (ResidueSigns).
euler_yaw(orient) ==
  CASE orient.z = 0 -> 0
    [] orient.z # 0 /\ orient.w = 0 -> 2
    [] orient.z # 0 /\ orient.z = orient.w -> 1
    [] orient.z # 0 /\ orient.z = -orient.w -> -1

\* math.cos and math.sin of q quarter turns, to the nearest thousandth (the
\* floats differ from these by about 1e-16)
Cos4(q) == CASE q % 4 = 0 -> 1 [] q % 4 = 1 -> 0 [] q % 4 = 2 -> -1 [] OTHER -> 0
Sin4(q) == CASE q % 4 = 0 -> 0 [] q % 4 = 1 -> 1 [] q % 4 = 2 -> 0 [] OTHER -> -1

\* line 196 with the sign of the sine term changed
LocalXTransposed(wpt, pose, yaw) ==
  (wpt.x - pose.x) * Cos4(yaw) + (wpt.y - pose.y) * Sin4(yaw)

\* lines 193-197: translate by the car position, rotate by yaw
LocalX(wpt, pose, yaw) ==
  (wpt.x - pose.x) * Cos4(yaw) - (wpt.y - pose.y) * Sin4(yaw)
LocalY(wpt, pose, yaw) ==
  (wpt.x - pose.x) * Sin4(yaw) + (wpt.y - pose.y) * Cos4(yaw)

x_car_body(wpts, pose, yaw) ==
  [i \in 1..Len(wpts) |-> LocalX(wpts[i], pose, yaw)]
y_car_body(wpts, pose, yaw) ==
  [i \in 1..Len(wpts) |-> LocalY(wpts[i], pose, yaw)]

\* The sign math.cos(yaw) of line 196 can have where Cos4 is 0.  math.cos
\* of the double of pi/2, to either side, is 6.1e-17; of a yaw a few units
\* in the last place beyond it, about -4e-16.  Which of the two yaws
\* euler_from_quaternion returns for z = w or z = -w depends on the floats of
\* the components, which the model's thousandths do not determine, so both
\* signs are outcomes.
ResidueSigns(yaw) == IF yaw % 4 \in {1, 3} THEN {1, -1} ELSE {1}

\* What the float temp1 of line 196 holds beyond LocalX, as a multiple of a
\* positive residue of about 1e-16.  With yaw = -0.0 the products are exact.
\* At a quarter turn to either side math.cos returns a residue of the sign s
\* where Cos4 is 0, which leaves del_x times that; at yaw = -pi math.sin
\* returns -1.2e-16 where Sin4 is 0, which leaves del_y times 1.2e-16, and
\* at yaw = pi its opposite.
ResidualX(wpt, pose, yaw, s) ==
  CASE yaw % 4 = 0 -> 0
    [] yaw % 4 \in {1, 3} -> s * (wpt.x - pose.x)
    [] yaw = -2 -> wpt.y - pose.y
    [] OTHER -> pose.y - wpt.y

\* a result of np.polyfit(x, y, 3): it raised, or it returned coefficients of
\* which the code uses the linear one (c) and the constant one (d)
FitRaise == NoFit
Fit(c, d) == [ok |-> TRUE, c |-> c, d |-> d]

\* the sequence without its i-th element
Without(s, i) == [k \in 1..(Len(s) - 1) |-> IF k < i THEN s[k] ELSE s[k + 1]]

\* no value occurs twice in the sequence
Distinct(s) == \A i, j \in 1..Len(s) : i # j => s[i] # s[j]

\* the fraction with a positive denominator
Positive(r) == IF r.den < 0 THEN Ratio(-r.num, -r.den) ELSE r

\* The cubic through four points with distinct x: the least-squares
\* solution of a square system of full rank is the interpolating polynomial.
\* By Lagrange's formula with the common denominator
\* V = prod_{j<k} (x_j - x_k), its value at 0 (d, the coefficient
\* coeff_3rd[3]) and its derivative at 0 (c, coeff_3rd[2]).
Interpolating(xs, ys) ==
  LET V == (xs[1] - xs[2]) * (xs[1] - xs[3]) * (xs[1] - xs[4])
             * (xs[2] - xs[3]) * (xs[2] - xs[4]) * (xs[3] - xs[4])
      \* y_i over prod_{j # i} (x_i - x_j), brought over V
      weight(i) ==
        LET o == Without(xs, i)
        IN  ys[i] * (o[1] - o[2]) * (o[1] - o[3]) * (o[2] - o[3])
              * (IF i % 2 = 1 THEN 1 ELSE -1)
      at0(i) == LET o == Without(xs, i) IN -1 * o[1] * o[2] * o[3]
      slope0(i) ==
        LET o == Without(xs, i) IN o[1] * o[2] + o[1] * o[3] + o[2] * o[3]
      sum(f(_)) == weight(1) * f(1) + weight(2) * f(2) + weight(3) * f(3)
                     + weight(4) * f(4)
  IN  Fit(Positive(Ratio(sum(slope0), V)), Positive(Ratio(sum(at0), V)))

\* Three points with distinct x leave the cubic undetermined (rank 3, which
\* draws a RankWarning and no exception).  np.polyfit divides each column of
\* the Vandermonde matrix by its norm and lstsq returns the solution of
\* least norm in those scaled coefficients: among the cubics
\* q(x) + t (x - a)(x - b)(x - c), q the parabola through the points, the one
\* that minimises sum_p S_p coef_p^2, where S_p = sum_i x_i^(2p).
MinimumNorm(xs, ys) ==
  LET a == xs[1]
      b == xs[2]
      c == xs[3]
      V == (a - b) * (a - c) * (b - c)
      \* the parabola q2 x^2 + q1 x + q0, times V
      Q2 == ys[1] * (b - c) - ys[2] * (a - c) + ys[3] * (a - b)
      Q1 == -1 * ( ys[1] * (b + c) * (b - c) - ys[2] * (a + c) * (a - c)
                   + ys[3] * (a + b) * (a - b) )
      Q0 == ys[1] * b * c * (b - c) - ys[2] * a * c * (a - c)
              + ys[3] * a * b * (a - b)
      \* (x - a)(x - b)(x - c) = x^3 - e1 x^2 + e2 x - e3
      e1 == a + b + c
      e2 == a * b + a * c + b * c
      e3 == a * b * c
      S3 == a^6 + b^6 + c^6
      S2 == a^4 + b^4 + c^4
      S1 == a^2 + b^2 + c^2
      S0 == 3
      \* t = - N / (V D)
      N == S1 * Q1 * e2 - S2 * Q2 * e1 - S0 * Q0 * e3
      D == S3 + S2 * e1 * e1 + S1 * e2 * e2 + S0 * e3 * e3
  IN  Fit(Positive(Ratio(Q1 * D - N * e2, V * D)),
          Positive(Ratio(Q0 * D + N * e3, V * D)))

\* np.polyfit(x, y, 3) for whole-numbered points.  An empty x raises
\* TypeError.  When every x is 0 the column scaling divides 0 by 0 and the
\* solver is handed nan: it raises LinAlgError or returns nan, depending on
\* the LAPACK build.  A zero y has the zero polynomial as solution.  Four
\* points with distinct x are interpolated; three give the solution of least
\* norm.  Other inputs (one or two points, points that share an x, more
\* than four points) are outside what is computed here.
polyfit(xs, ys) ==
  CASE Len(xs) = 0 -> {FitRaise}
    [] Len(xs) > 0 /\ (\A i \in 1..Len(xs) : xs[i] = 0)
         -> {FitRaise, Fit(Ratio(0, 0), Ratio(0, 0))}
    [] /\ Len(xs) > 0
       /\ \E i \in 1..Len(xs) : xs[i] # 0
       /\ \A i \in 1..Len(ys) : ys[i] = 0
         -> {Fit(Ratio(0, 1), Ratio(0, 1))}
    [] /\ Len(xs) = 4 /\ Distinct(xs)
       /\ \E i \in 1..Len(ys) : ys[i] # 0
         -> {Interpolating(xs, ys)}
    [] /\ Len(xs) = 3 /\ Distinct(xs)
       /\ \E i \in 1..Len(ys) : ys[i] # 0
         -> {MinimumNorm(xs, ys)}

\* whether polyfit is computed for the points
Fitted(xs, ys) ==
  \/ Len(xs) = 0
  \/ \A i \in 1..Len(xs) : xs[i] = 0
  \/ \A i \in 1..Len(ys) : ys[i] = 0
  \/ Len(xs) \in {3, 4} /\ Distinct(xs)

\* floor(r * 10^k / d) for 0 <= r < d, digit by digit
RECURSIVE Digits(_, _, _)
Digits(r, d, k) ==
  IF k = 0 THEN 0
  ELSE ((r * 10) \div d) * 10^(k - 1) + Digits((r * 10) % d, d, k - 1)

\* a float in thousandths, to the nearest; nan for nan
Milli(r) ==
  IF r.den = 0 THEN (IF r.num = 0 THEN NaN ELSE r.num * 1000000000)
  ELSE LET n == IF r.num < 0 THEN -r.num ELSE r.num
           tenth == (n \div r.den) * 10000 + Digits(n % r.den, r.den, 4)
           m == (tenth + 5) \div 10
       IN  IF r.num < 0 THEN -m ELSE m

\* math.atan(2^-k) in nanoradians, for k = 0..30
AtanTable ==
  << 785398163, 463647609, 244978663, 124354995, 62418810, 31239833,
     15623729, 7812341, 3906230, 1953123, 976562, 488281, 244141, 122070,
     61035, 30518, 15259, 7629, 3815, 1907, 954, 477, 238, 119, 60, 30, 15,
     7, 4, 2, 1 >>

\* the angle of the vector (x, y), x > 0, in nanoradians, added to a: the
\* vector is turned towards the x axis by atan(2^-k) for k, k+1, ..., 30
RECURSIVE Cordic(_, _, _, _)
Cordic(x, y, k, a) ==
  IF k > 30 \/ y = 0 THEN a
  ELSE IF y > 0
  THEN Cordic(x + (y \div 2^k), y - (x \div 2^k), k + 1, a + AtanTable[k + 1])
  ELSE Cordic(x - (y \div 2^k), y + (x \div 2^k), k + 1, a - AtanTable[k + 1])

\* the component v of a vector whose larger component is m > 0, brought to
\* the working range of Cordic: the larger component comes to lie between
\* 2^27 and 2^28, whatever the size of the vector, as atan2 depends on the
\* direction alone
Scaled(v, m) ==
  IF m > 2^28 THEN v \div ((m \div 2^28) + 1) ELSE v * (2^28 \div m)

\* math.atan2(1.0, slope), the arguments of line 223 exchanged
atan2_swapped(slope) ==
  IF slope.den = 0
  THEN (IF slope.num = 0 THEN NaN ELSE IF slope.num > 0 THEN 0 ELSE 3141593)
  ELSE IF slope.num = 0 THEN HalfPi
  ELSE LET big == IF slope.num < 0 THEN -slope.num ELSE slope.num
           m == IF big > slope.den THEN big ELSE slope.den
           a == (Cordic(Scaled(big, m), Scaled(slope.den, m), 0, 0) + 500)
                  \div 1000
       IN  IF slope.num > 0 THEN a ELSE 3141593 - a

\* math.atan2(slope, 1.0) in microradians (line 223), the slope an exact
\* fraction with a positive denominator; nan for nan, and pi/2 with the sign
\* of a slope beyond 1e12.  The result is within a microradian of the float's.
atan2_1(slope) ==
  IF slope.den = 0
  THEN (IF slope.num = 0 THEN NaN ELSE IF slope.num > 0 THEN HalfPi ELSE -HalfPi)
  ELSE LET big == IF slope.num < 0 THEN -slope.num ELSE slope.num
           m == IF big > slope.den THEN big ELSE slope.den
           a == (Cordic(Scaled(slope.den, m), Scaled(big, m), 0, 0) + 500)
                  \div 1000
       IN  IF slope.num < 0 THEN -a ELSE a

\* lines 226-229; every comparison with nan is false
ClampHeading(h) ==
  IF h = NaN THEN NaN
  ELSE IF h > HalfPi THEN HalfPi
  ELSE IF h < -HalfPi THEN -HalfPi
  ELSE h

\* lines 234-237; every comparison with nan is false
ClampCTE(d) ==
  IF d = NaN THEN NaN
  ELSE IF d > CTELimit THEN CTELimit
  ELSE IF d < -CTELimit THEN -CTELimit
  ELSE d

\* what Compute_CTE can do: "attr" when self.current_pose or
\* self.current_orient is None (lines 183, 186), "fit" when np.polyfit raised
\* (line 203), else "ok" with the pair returned
CTEResult(how, fit) ==
  [how |-> how, fit |-> fit,
   CTE |-> IF how = "ok" THEN ClampCTE(Milli(fit.d)) ELSE 0,
   heading_err |-> IF how = "ok" THEN ClampHeading(atan2_1(fit.c)) ELSE 0]

\* the fit whose x are a residue e > 0 of about 1e-16 times whole
\* numbers: np.polyfit scales every column, so the coefficient of x^p is
\* that of the fit of the whole numbers divided by e^p; the constant is the
\* same and the linear one, unless 0, beyond 1e12
Steepened(fit) ==
  IF ~fit.ok \/ fit.c.den = 0 \/ fit.c.num = 0 THEN fit
  ELSE Fit(Ratio(IF fit.c.num > 0 THEN 1 ELSE -1, 0), fit.d)

\* lines 190-239: the results from the path, and from the position and the
\* yaw that lines 183-187 read
CTE_from(wpts, pose, yaw) ==
  LET xs == x_car_body(wpts, pose, yaw)
      ys == y_car_body(wpts, pose, yaw)
      us(s) == [i \in 1..Len(wpts) |-> ResidualX(wpts[i], pose, yaw, s)]
      \* every x rounds to 0 but some x is a nonzero residue: the scale of
      \* the columns is not 0
      tiny == /\ \A i \in 1..Len(xs) : xs[i] = 0
              /\ \E i \in 1..Len(xs) : us(1)[i] # 0
      fits == IF tiny
              THEN UNION { { Steepened(f) : f \in polyfit(us(s), ys) } :
                           s \in ResidueSigns(yaw) }
              ELSE polyfit(xs, ys)
  IN  { CTEResult(IF f.ok THEN "ok" ELSE "fit", f) : f \in fits }

\* whether CTE_from is computed for the path seen from the pose
Computed(wpts, pose, yaw) ==
  LET xs == x_car_body(wpts, pose, yaw)
      ys == y_car_body(wpts, pose, yaw)
      us == [i \in 1..Len(wpts) |-> ResidualX(wpts[i], pose, yaw, 1)]
  IN  IF (\A i \in 1..Len(xs) : xs[i] = 0) /\ (\E i \in 1..Len(us) : us[i] # 0)
      THEN Fitted(us, ys)
      ELSE Fitted(xs, ys)

\* Compute_CTE (lines 179-239) on the stored path, position and orientation
Compute_CTE(wpts, pose, orient) ==
  IF pose = None \/ orient = None THEN {CTEResult("attr", FitRaise)}
  ELSE CTE_from(wpts, Val(pose), -1 * euler_yaw(Val(orient)))

(* ---------------- DBWNode.publish ---------------- *)

\* the channels on which publish(throttle, brake, steer) calls a publisher
\* (lines 144, 151, 159), given the stored previous values
publish(cmd, tprev, sprev, bprev) ==
  {ch \in {"throttle"} : tprev # cmd.throttle}
    \cup {ch \in {"steer"} : sprev # cmd.steer}
    \cup {ch \in {"brake"} : bprev # cmd.brake}

(* ---------------- DBWNode.loop ---------------- *)

\* line 88, left operand: self.finalwpts != None
PathReceived(wpts) == wpts # None

\* line 88 without its right operand
VelocityAssumed(vel) == TRUE

\* line 88, right operand: self.current_velocity != None
VelocityReceived(vel) == vel # None

\* lines 122-123 guarding against a zero dt only
DtFloorZeroOnly(dt) == IF dt <= 0 THEN DtFallback ELSE dt

\* lines 122-123
DtFloor(dt) == IF dt < DtMin THEN DtFallback ELSE dt

\* line 126: (current_velocity_new - current_velocity_prev) / dt, in m/s^2
AccelMeas(vnew, vprev, dt) == Ratio((vnew - vprev) * ClockHz, dt)

\* line 127: - brake_prev / (wheel_radius * vehicle_mass)
DecelCalc(bprev) == Ratio(-1 * bprev * 1000000, WheelRadiusE4 * VehicleMassE2)

\* lines 102-108: the arguments of self.controller.control, in order; the
\* sixth is proposed_angular_velocity again, self.heading_err is not passed
ControlArgs(plv, pav, clv, cav, cte, herr, dbw_status) ==
  << plv, pav, clv, cav, cte, pav, dbw_status >>

\* lines 112-120 moved under the "if dbw_status" of line 129
BookkeptWhenEnabled(dbw_status, old, new) == IF dbw_status THEN new ELSE old

\* lines 112-120: the new value of a bookkeeping field; the assignments stand
\* before the test of dbw_status and do not read it
Bookkept(dbw_status, old, new) == new

\* line 130 with the brake released when the measured acceleration is positive
ForwardedCompensated(cmd, accel_meas, decel_calc) ==
  IF accel_meas.num > 0 THEN [cmd EXCEPT !.brake = 0] ELSE cmd

\* line 130: the triple handed to publish() is the controller's; accel_meas
\* and decel_calc (lines 126-127) are read by nothing but the dead prints
Forwarded(cmd, accel_meas, decel_calc) == cmd

\* line 129 testing self.dbw_enabled anew
GateReread(dbw_status, flag_now) == flag_now

\* line 129: the flag that gates publish() is the local dbw_status of line
\* 94, whatever self.dbw_enabled has become since
Gate(dbw_status, flag_now) == dbw_status

\* lines 129-130 without the test of dbw_status
PublishedUngated(dbw_status, cmd, tprev, sprev, bprev) ==
  publish(cmd, tprev, sprev, bprev)

\* lines 129-130
Published(dbw_status, cmd, tprev, sprev, bprev) ==
  IF dbw_status THEN publish(cmd, tprev, sprev, bprev) ELSE {}

\* the loop has not ended: no exception has left it.  The model covers the
\* node while rospy.is_shutdown() is false (line 87), up to the end of its
\* MaxTicks-th iteration.
Running == pc # "raised" /\ ticks < MaxTicks

\* what a step of the iteration that only reads leaves alone
stepFrame ==
  << inputs, estimate, latches, bookkeeping, now, ticks, last, body, emitted,
     posecb >>

\* the iteration goes on at the line named, with the locals as given
Goto(line, locals) ==
  /\ pc' = line
  /\ frame' = locals
  /\ UNCHANGED stepFrame

\* line 88 false: the body is skipped, rate.sleep() follows (line 137) and
\* the clock has advanced by some step when the next iteration begins
StepSkip ==
  /\ last' = Idle("skipped", FALSE)
  /\ ticks' = ticks + 1
  /\ \E step \in ClockSteps : now' = now + step
  /\ pc' = "loop"
  /\ frame' = NoFrame
  /\ UNCHANGED << inputs, estimate, latches, bookkeeping, body, emitted,
                  posecb >>

\* an exception leaves loop(): est tells whether Compute_CTE had been entered
StepRaise(est) ==
  /\ pc' = "raised"
  /\ ticks' = ticks + 1
  /\ last' = Idle("raised", est)
  /\ UNCHANGED << inputs, estimate, latches, bookkeeping, now, body, emitted,
                  stepping >>

\* line 88, the read of self.finalwpts: "and" stops at a false left operand
Step88 ==
  /\ pc = "loop" /\ Running
  /\ IF ~PathReceived(finalwpts)
     THEN StepSkip
     ELSE Goto("l88v", NoFrame)

\* line 88, the read of self.current_velocity, made when the left operand was
\* true
Step88v ==
  /\ pc = "l88v"
  /\ IF ~VelocityReceived(current_velocity)
     THEN StepSkip
     ELSE Goto("l89", frame)

\* line 89: proposed_linear_velocity = self.twist_cmd.linear.x
Step89 ==
  /\ pc = "l89"
  /\ IF twist_cmd = None
     THEN StepRaise(FALSE)
     ELSE Goto("l90", [frame EXCEPT
                         !.proposed_linear_velocity = Val(twist_cmd).lin])

\* line 90: proposed_angular_velocity = self.twist_cmd.angular.z
Step90 ==
  /\ pc = "l90"
  /\ IF twist_cmd = None
     THEN StepRaise(FALSE)
     ELSE Goto("l91", [frame EXCEPT
                         !.proposed_angular_velocity = Val(twist_cmd).ang])

\* line 91: current_linear_velocity = self.current_velocity.linear.x
Step91 ==
  /\ pc = "l91"
  /\ IF current_velocity = None
     THEN StepRaise(FALSE)
     ELSE Goto("l92", [frame EXCEPT
                         !.current_linear_velocity = Val(current_velocity).lin])

\* line 92: current_angular_velocity = self.current_velocity.angular.z
Step92 ==
  /\ pc = "l92"
  /\ IF current_velocity = None
     THEN StepRaise(FALSE)
     ELSE Goto("l183", [frame EXCEPT
                          !.current_angular_velocity =
                             Val(current_velocity).ang])

\* line 183: global_car_x = self.current_pose.x
Step183 ==
  /\ pc = "l183"
  /\ IF current_pose = None
     THEN StepRaise(TRUE)
     ELSE Goto("l184", [frame EXCEPT !.global_car_x = Val(current_pose).x])

\* line 184: global_car_y = self.current_pose.y, a second read of the field
Step184 ==
  /\ pc = "l184"
  /\ IF current_pose = None
     THEN StepRaise(TRUE)
     ELSE Goto("l186x", [frame EXCEPT !.global_car_y = Val(current_pose).y])

\* line 186, self.current_orient.x: the first of four reads of the field,
\* which is None when no CurrPose_cb has reached line 171; the x of every
\* orientation of the model is 0
Step186x ==
  /\ pc = "l186x"
  /\ IF current_orient = None
     THEN StepRaise(TRUE)
     ELSE Goto("l186y", frame)

\* line 186, self.current_orient.y, which is 0 as well
Step186y ==
  /\ pc = "l186y"
  /\ IF current_orient = None
     THEN StepRaise(TRUE)
     ELSE Goto("l186z", frame)

\* line 186, self.current_orient.z
Step186z ==
  /\ pc = "l186z"
  /\ IF current_orient = None
     THEN StepRaise(TRUE)
     ELSE Goto("l186w", [frame EXCEPT !.z = Val(current_orient).z])

\* line 186, self.current_orient.w, then euler_from_quaternion on the four
\* numbers read, and line 187
Step186w ==
  /\ pc = "l186w"
  /\ IF current_orient = None
     THEN StepRaise(TRUE)
     ELSE LET w == Val(current_orient).w
          IN  Goto("l192", [frame EXCEPT
                              !.w = w,
                              !.yaw = -1 * euler_yaw([z |-> frame.z, w |-> w])])

\* lines 189-239, which read self.finalwpts once (line 192), and the
\* assignment of line 93; the locals of lines 183-187 are dead from here on
Step192 ==
  /\ pc = "l192"
  /\ \E r \in CTE_from(Val(finalwpts),
                        [x |-> frame.global_car_x, y |-> frame.global_car_y],
                        frame.yaw) :
       IF r.how # "ok"
       THEN StepRaise(TRUE)
       ELSE /\ CTE' = r.CTE
            /\ heading_err' = r.heading_err
            /\ frame' = [frame EXCEPT !.fit = r.fit,
                                      !.npts = Len(Val(finalwpts)),
                                      !.global_car_x = 0, !.global_car_y = 0,
                                      !.z = 0, !.w = 0, !.yaw = 0]
            /\ pc' = "l94"
            /\ UNCHANGED << inputs, latches, bookkeeping, now, ticks, last,
                            body, emitted, posecb >>

\* line 94: dbw_status = self.dbw_enabled
Step94 ==
  /\ pc = "l94"
  /\ Goto("l102", [frame EXCEPT !.dbw_status = dbw_enabled])

\* lines 102-137: the call of the controller, the bookkeeping, publish()
\* under the flag, rate.sleep(); the clock has advanced by some step since
\* the previous iteration read it
control_to_sleep ==
  /\ pc = "l102"
  /\ \E step \in ClockSteps : now' = now + step
  /\ \E throttle \in Cmds, brake \in Cmds, steering \in Cmds :
       LET dbw_status == frame.dbw_status
           gate == Gate(dbw_status, dbw_enabled)
           args == ControlArgs(frame.proposed_linear_velocity,
                               frame.proposed_angular_velocity,
                               frame.current_linear_velocity,
                               frame.current_angular_velocity,
                               CTE, heading_err, dbw_status)
           cmd == [throttle |-> throttle, brake |-> brake, steer |-> steering]
           time == now'
           dt == DtFloor(time - prevtime)
           accel_meas == AccelMeas(current_velocity_new',
                                   current_velocity_prev', dt)
           decel_calc == DecelCalc(brake_prev')
           sent == Forwarded(cmd, accel_meas, decel_calc)
       IN  /\ brake_prev' = Bookkept(dbw_status, brake_prev, brake_new)
           /\ brake_new' = Bookkept(dbw_status, brake_new, brake)
           /\ current_velocity_prev' =
                Bookkept(dbw_status, current_velocity_prev, current_velocity_new)
           /\ current_velocity_new' =
                Bookkept(dbw_status, current_velocity_new,
                         frame.current_linear_velocity)
           /\ prevtime' = Bookkept(dbw_status, prevtime, time)
           /\ UNCHANGED << throttle_prev, steer_prev >>
           /\ last' = Iteration("executed", TRUE, frame.fit, TRUE, args, gate,
                        cmd, IF gate THEN sent ELSE NoCmd,
                        Published(gate, sent, throttle_prev', steer_prev',
                                  brake_prev'),
                        time - prevtime, dt, accel_meas, decel_calc)
  /\ frame' = [NoFrame EXCEPT !.dbw_status = frame.dbw_status,
                              !.flag_at_gate = dbw_enabled]
  /\ pc' = "loop"
  /\ ticks' = ticks + 1
  /\ UNCHANGED << inputs, estimate, body, posecb >>

Step102 ==
  /\ control_to_sleep
  /\ UNCHANGED emitted

(* ---------------- the subscriber callbacks ---------------- *)

callbackFrame ==
  << estimate, latches, bookkeeping, now, pc, ticks, last, body, emitted,
     frame >>

\* lines 163-164
finalwpts_cb(msg) ==
  /\ Running
  /\ finalwpts' = Some(msg)
  /\ UNCHANGED << dbw_enabled, current_velocity, current_pose, current_orient,
                  twist_cmd, posecb, callbackFrame >>

\* lines 166-167 followed by a reset of the stored brake commands whenever
\* the flag changes
DBWEnabled_cb_resetting(msg) ==
  /\ Running
  /\ dbw_enabled' = msg
  /\ brake_prev' = IF msg # dbw_enabled THEN 0 ELSE brake_prev
  /\ brake_new' = IF msg # dbw_enabled THEN 0 ELSE brake_new
  /\ UNCHANGED << finalwpts, current_velocity, current_pose, current_orient,
                  twist_cmd, estimate, throttle_prev, steer_prev, bookkeeping,
                  now, pc, ticks, last, body, emitted, stepping >>

\* lines 166-167
DBWEnabled_cb(msg) ==
  /\ Running
  /\ dbw_enabled' = msg
  /\ UNCHANGED << finalwpts, current_velocity, current_pose, current_orient,
                  twist_cmd, posecb, callbackFrame >>

\* line 170: self.current_pose = msg.pose.position.  The callbacks of one
\* subscriber run one after another, so no second CurrPose_cb starts before
\* the first has finished.
CurrPose_cb_170(msg) ==
  /\ Running
  /\ posecb = None
  /\ current_pose' = Some(Position(msg))
  /\ posecb' = Some(msg)
  /\ UNCHANGED << finalwpts, dbw_enabled, current_velocity, current_orient,
                  twist_cmd, callbackFrame >>

\* line 171: self.current_orient = msg.pose.orientation
CurrPose_cb_171 ==
  /\ Running
  /\ posecb # None
  /\ current_orient' = Some(Orientation(Val(posecb)))
  /\ posecb' = None
  /\ UNCHANGED << finalwpts, dbw_enabled, current_velocity, current_pose,
                  twist_cmd, callbackFrame >>

\* lines 173-174
CurrVel_cb(msg) ==
  /\ Running
  /\ current_velocity' = Some(msg)
  /\ UNCHANGED << finalwpts, dbw_enabled, current_pose, current_orient,
                  twist_cmd, posecb, callbackFrame >>

\* lines 176-177
TwistCmd_cb(msg) ==
  /\ Running
  /\ twist_cmd' = Some(msg)
  /\ UNCHANGED << finalwpts, dbw_enabled, current_velocity, current_pose,
                  current_orient, posecb, callbackFrame >>

\* the steps of an iteration of loop() up to its last
reads ==
  \/ Step88
  \/ Step88v
  \/ Step89
  \/ Step90
  \/ Step91
  \/ Step92
  \/ Step183
  \/ Step184
  \/ Step186x
  \/ Step186y
  \/ Step186z
  \/ Step186w
  \/ Step192
  \/ Step94

(* ---------------- the specification ---------------- *)

\* what the callbacks of /current_pose can have left when loop() is called.
\* The subscriber exists from line 61 on and its callbacks run one after
\* another, each line 170 and then line 171, while __init__ goes through line
\* 68 (self.current_pose = None) and then line 69 (self.current_orient =
\* None).  With no callback under way, the last one to finish left its
\* position unless line 68 came after its line 170, and its orientation unless
\* line 69 came after its line 171.  With a callback under way between its
\* two lines, the position is its own unless line 68 came after, and the
\* orientation is that of an earlier message that was stored after line 69.
PoseConstructed(poses) ==
  \/ /\ posecb = None
     /\ \/ current_pose = None /\ current_orient = None
        \/ \E msg \in poses :
             /\ current_pose \in {None, Some(Position(msg))}
             /\ current_orient \in {None, Some(Orientation(msg))}
  \/ \E msg \in poses :
       /\ posecb = Some(msg)
       /\ \/ current_pose = None /\ current_orient = None
          \/ /\ current_pose = Some(Position(msg))
             /\ current_orient \in
                  {None} \cup {Some(Orientation(was)) : was \in poses}

\* DBWNode.__init__ up to the call of loop() (line 83).  The subscribers
\* exist from lines 59-63 on, so a callback can run while lines 65-70 are
\* still to come: what it stored is overwritten if its field's line comes
\* later and stays if the line has passed.  Each stored input is therefore
\* its initial value or that of a message.  The fields of lines 71-81 are
\* written by no callback.
Constructed(lanes, poses, vels, twists) ==
  /\ dbw_enabled \in BOOLEAN
  /\ current_velocity \in {None} \cup {Some(msg) : msg \in vels}
  /\ finalwpts \in {None} \cup {Some(msg) : msg \in lanes}
  /\ PoseConstructed(poses)
  /\ twist_cmd \in {None} \cup {Some(msg) : msg \in twists}
  /\ CTE = 0
  /\ heading_err = 0
  /\ throttle_prev = 0
  /\ steer_prev = 0
  /\ brake_prev = 0
  /\ brake_new = 0
  /\ current_velocity_prev = 0
  /\ current_velocity_new = 0
  /\ prevtime = 0
  /\ now = 0
  /\ pc = "loop"
  /\ ticks = 0
  /\ last = Idle("none", FALSE)
  /\ body = NoBody
  /\ emitted = NothingEmitted
  /\ frame = NoFrame

Init == Constructed(LaneMsgs, PoseMsgs, VelMsgs, TwistMsgs)

Next ==
  \/ \E msg \in LaneMsgs : finalwpts_cb(msg)
  \/ \E msg \in BOOLEAN : DBWEnabled_cb(msg)
  \/ \E msg \in PoseMsgs : CurrPose_cb_170(msg)
  \/ CurrPose_cb_171
  \/ \E msg \in VelMsgs : CurrVel_cb(msg)
  \/ \E msg \in TwistMsgs : TwistCmd_cb(msg)
  \/ reads
  \/ Step102

Spec == Init /\ [][Next]_vars

(* ---------------- the node and the actuator topics ---------------- *)

\* the last step of an iteration together with what its calls of publish
\* (lines 146, 153, 160) leave on the three topics
Step102_wire ==
  /\ control_to_sleep
  /\ emitted' = [ch \in Channels |->
                   IF ch \in last'.pub THEN last'.sent[ch] ELSE emitted[ch]]

NextWire ==
  \/ \E msg \in LaneMsgs : finalwpts_cb(msg)
  \/ \E msg \in BOOLEAN : DBWEnabled_cb(msg)
  \/ \E msg \in PoseMsgs : CurrPose_cb_170(msg)
  \/ CurrPose_cb_171
  \/ \E msg \in VelMsgs : CurrVel_cb(msg)
  \/ \E msg \in TwistMsgs : TwistCmd_cb(msg)
  \/ reads
  \/ Step102_wire

SpecWire == Init /\ [][NextWire]_vars

(* ---------------- one iteration among changing messages ---------------- *)

\* The last of the MaxTicks iterations, the earlier ones skipped for want of
\* a path, while two different messages arrive on each of /current_pose,
\* /current_velocity and /twist_cmd, so that two reads of one field can
\* return different objects.

\* a path whose waypoints differ in x and in y, seen with distinct local x
\* from every quarter turn
PathBend == << Wp(1, 1), Wp(2, 2), Wp(3, 4), Wp(4, 7) >>
StepLaneMsgs == {PathBend}

\* two poses that differ in x, in y and in both components of the
\* orientation: facing -x and facing +x
StepPoseMsgs == { Pose(5, 0, 2), Pose(0, 1, 0) }

StepVelMsgs == { [lin |-> 1, ang |-> 4], [lin |-> 6, ang |-> 8] }

StepTwistMsgs == { [lin |-> 2, ang |-> 3], [lin |-> 7, ang |-> 9] }

\* the node as constructed, after MaxTicks - 1 iterations that found no path
\* and took no time
InitSteps ==
  /\ dbw_enabled \in BOOLEAN
  /\ current_velocity \in {None} \cup {Some(msg) : msg \in StepVelMsgs}
  /\ finalwpts = None
  /\ PoseConstructed(StepPoseMsgs)
  /\ twist_cmd \in {None} \cup {Some(msg) : msg \in StepTwistMsgs}
  /\ CTE = 0
  /\ heading_err = 0
  /\ throttle_prev = 0
  /\ steer_prev = 0
  /\ brake_prev = 0
  /\ brake_new = 0
  /\ current_velocity_prev = 0
  /\ current_velocity_new = 0
  /\ prevtime = 0
  /\ now = 0
  /\ pc = "loop"
  /\ ticks = MaxTicks - 1
  /\ last = Idle("skipped", FALSE)
  /\ body = NoBody
  /\ emitted = NothingEmitted
  /\ frame = NoFrame

NextSteps ==
  \/ \E msg \in StepLaneMsgs : finalwpts_cb(msg)
  \/ \E msg \in BOOLEAN : DBWEnabled_cb(msg)
  \/ \E msg \in StepPoseMsgs : CurrPose_cb_170(msg)
  \/ CurrPose_cb_171
  \/ \E msg \in StepVelMsgs : CurrVel_cb(msg)
  \/ \E msg \in StepTwistMsgs : TwistCmd_cb(msg)
  \/ reads
  \/ Step102

SpecSteps == InitSteps /\ [][NextSteps]_vars

(* ---------------- the estimator on its own ---------------- *)

\* a path straight along +x and one along +y
PathStraight == << Wp(1, 0), Wp(2, 0), Wp(3, 0), Wp(4, 0) >>
PathNorth == << Wp(0, 1), Wp(0, 2), Wp(0, 3), Wp(0, 4) >>

\* the paths and the poses Compute_CTE is applied to: every quarter turn of
\* the yaw, at positions on and off the paths
CTEPaths == LaneMsgs \cup {PathStraight, PathNorth, PathBend}
CTEPoses == { Pose(x, y, q) : x \in {0, 5}, y \in {0, 1}, q \in 0..3 }

\* the node with a path, a velocity, a twist command and possibly a pose
\* received, before the first iteration of the loop; of a pose, those from
\* which the local points of the path are among the ones polyfit is computed
\* for
InitCTE ==
  /\ dbw_enabled \in BOOLEAN
  /\ current_velocity \in {Some(msg) : msg \in VelMsgs}
  /\ finalwpts \in {Some(p) : p \in CTEPaths}
  /\ \/ current_pose = None /\ current_orient = None
     \/ \E msg \in CTEPoses :
          /\ current_pose = Some(Position(msg))
          /\ current_orient = Some(Orientation(msg))
          /\ Computed(Val(finalwpts), Position(msg),
                      -1 * euler_yaw(Orientation(msg)))
  /\ twist_cmd \in {Some(msg) : msg \in TwistMsgs}
  /\ CTE = 0
  /\ heading_err = 0
  /\ throttle_prev = 0
  /\ steer_prev = 0
  /\ brake_prev = 0
  /\ brake_new = 0
  /\ current_velocity_prev = 0
  /\ current_velocity_new = 0
  /\ prevtime = 0
  /\ now = 0
  /\ pc = "loop"
  /\ ticks = 0
  /\ last = Idle("none", FALSE)
  /\ body = NoBody
  /\ emitted = NothingEmitted
  /\ frame = NoFrame
  /\ posecb = None

\* self.CTE, self.heading_err = self.Compute_CTE() (line 93) with no
\* callback running beside it: the call returns and the pair is stored, or
\* it raises and nothing is stored
EstimateCTE ==
  /\ pc = "loop"
  /\ \E r \in Compute_CTE(Val(finalwpts), current_pose, current_orient) :
       /\ pc' = IF r.how = "ok" THEN "estimated" ELSE "raised"
       /\ CTE' = IF r.how = "ok" THEN r.CTE ELSE CTE
       /\ heading_err' = IF r.how = "ok" THEN r.heading_err ELSE heading_err
       /\ body' = IF r.how = "attr" THEN body
                  ELSE LET yaw == -1 * euler_yaw(Val(current_orient))
                       IN  [x |-> x_car_body(Val(finalwpts), Val(current_pose),
                                             yaw),
                            y |-> y_car_body(Val(finalwpts), Val(current_pose),
                                             yaw)]
       /\ last' = Iteration(IF r.how = "ok" THEN "estimated" ELSE "raised",
                            TRUE, r.fit, FALSE, NoArgs, FALSE, NoCmd, NoCmd, {},
                            0, 0, Ratio(0, 1), Ratio(0, 1))
  /\ UNCHANGED << inputs, latches, bookkeeping, now, ticks, emitted,
                  stepping >>

\* lines 94-108 after it: the call of self.controller.control.  No callback
\* runs in this specification, so the fields hold what lines 89-92 read.
ControlCTE ==
  /\ pc = "estimated"
  /\ pc' = "controlled"
  /\ last' = [last EXCEPT
                !.kind = "controlled",
                !.controller = TRUE,
                !.enabled = dbw_enabled,
                !.args = ControlArgs(Val(twist_cmd).lin, Val(twist_cmd).ang,
                                     Val(current_velocity).lin,
                                     Val(current_velocity).ang,
                                     CTE, heading_err, dbw_enabled)]
  /\ UNCHANGED << inputs, estimate, latches, bookkeeping, now, ticks, body,
                  emitted, stepping >>

NextCTE ==
  \/ EstimateCTE
  \/ ControlCTE

SpecCTE == InitCTE /\ [][NextCTE]_vars

(* ---------------- properties ---------------- *)

\* a step that ends an iteration of the loop
TickStep == ticks' = ticks + 1

\* a step of a callback: it is no step of loop()
CallbackStep == pc' = pc /\ ticks' = ticks

\* the stored previous value of a channel
StoredPrev(ch) ==
  CASE ch = "throttle" -> throttle_prev
    [] ch = "steer" -> steer_prev
    [] ch = "brake" -> brake_prev

\* path, velocity, twist command, position and orientation are all stored
AllPresent ==
  /\ finalwpts # None
  /\ current_velocity # None
  /\ twist_cmd # None
  /\ current_pose # None
  /\ current_orient # None

\* C1. Latch idempotence: when two consecutive iterations both execute with
\* the enable flag true and the controller returns the same triple in both,
\* the second publishes on no channel.
LatchIdempotence ==
  [][ ( /\ TickStep
        /\ last.kind = "executed" /\ last.enabled
        /\ last'.kind = "executed" /\ last'.enabled
        /\ last'.cmd = last.cmd )
      => last'.pub = {} ]_vars

\* C2. Disable gating: an iteration that executes with the enable flag false
\* publishes on no channel, whatever triple the controller returned.
DisableGating ==
  (last.kind = "executed" /\ ~last.enabled) => last.pub = {}

\* C2 witness: a disabled iteration in which the controller returned a
\* nonzero value on every channel, and nothing was published
DisabledTickWithCommands ==
  /\ last.kind = "executed" /\ ~last.enabled
  /\ last.cmd.throttle > 0 /\ last.cmd.brake > 0 /\ last.cmd.steer > 0
  /\ last.pub = {}

\* C3. Publish on change: in an enabled iteration, on each channel by
\* itself, a value that differs from the stored previous value is emitted
\* and becomes the stored previous value; an identical value is not emitted.
PublishOnChange ==
  [][ (TickStep /\ last'.kind = "executed" /\ last'.enabled)
      => \A ch \in Channels :
           IF StoredPrev(ch) # last'.cmd[ch]
           THEN ch \in last'.pub /\ StoredPrev(ch)' = last'.cmd[ch]
           ELSE ch \notin last'.pub ]_vars

\* C4. The stored previous value of every channel is zero before the first
\* iteration and, after an executed iteration, the value the controller
\* returned for that channel in it.
LatchHoldsCommand ==
  /\ last.kind = "none" => \A ch \in Channels : StoredPrev(ch) = 0
  /\ last.kind = "executed" =>
       \A ch \in Channels : StoredPrev(ch) = last.cmd[ch]

\* C5. No condition is fatal: whatever has and has not arrived, no iteration
\* ends with an exception leaving the loop.
NoConditionIsFatal == pc # "raised" /\ last.kind # "raised"

\* C6. Data-unavailable skip: an iteration that finds no path stored, or no
\* velocity stored, when line 88 tests for it skips its body: estimator and
\* controller are not called, nothing is published, and the latches, the
\* previous-velocity values, the previous timestamp and the stored estimate
\* stay as they are.  No line of the body is ever reached without a path and
\* a velocity stored.
DataUnavailableSkip ==
  /\ [](pc \notin {"loop", "l88v", "raised"}
          => finalwpts # None /\ current_velocity # None)
  /\ [][ ( /\ ~CallbackStep
           /\ \/ pc = "loop" /\ finalwpts = None
              \/ pc = "l88v" /\ current_velocity = None )
         => /\ TickStep
            /\ last'.kind = "skipped"
            /\ ~last'.estimator /\ ~last'.controller
            /\ last'.pub = {}
            /\ pc' = "loop"
            /\ UNCHANGED << throttle_prev, steer_prev, brake_prev, brake_new,
                            current_velocity_prev, current_velocity_new,
                            prevtime, CTE, heading_err >> ]_vars

\* C6 witness: an iteration was skipped while everything but the velocity
\* had arrived and the enable flag was true
SkippedForVelocity ==
  /\ last.kind = "skipped"
  /\ finalwpts # None /\ twist_cmd # None /\ current_pose # None
  /\ current_orient # None
  /\ current_velocity = None
  /\ dbw_enabled

\* the iteration about to end computed its estimate, or is about to, from a
\* path of fewer than 4 waypoints, every other input having been read, and
\* with the enable flag true
EndsOnShortPath ==
  \/ pc = "l192" /\ Len(Val(finalwpts)) < 4 /\ dbw_enabled
  \/ pc = "l102" /\ frame.npts < 4 /\ frame.dbw_status

\* C7. Degenerate path: an iteration that uses a path of fewer than 4
\* waypoints, every other input present and the enable flag true, publishes
\* on no channel and raises nothing.
DegeneratePathIsQuiet ==
  [][ (TickStep /\ EndsOnShortPath)
      => (last'.pub = {} /\ last'.kind # "raised" /\ pc' # "raised") ]_vars

\* C8. Recovery: after an iteration that failed or was skipped the loop is
\* still running, and an iteration that then ends with every input stored
\* and a path of at least 4 waypoints has executed, with the flag it read.
Recovery ==
  /\ [](last.kind \in {"skipped", "raised"} => pc # "raised")
  /\ [][ ( /\ TickStep
           /\ last.kind \in {"skipped", "raised"}
           /\ AllPresent /\ Len(Val(finalwpts)) >= 4 )
         => /\ last'.kind = "executed"
            /\ last'.controller
            /\ last'.enabled = frame.dbw_status ]_vars

\* C10. Timing floor: in an executed iteration the acceleration estimate
\* divides by 0.1 s when the time since the stored previous timestamp is
\* below 1 ms and by that time otherwise; the divisor is never below 1 ms.
TimingFloor ==
  [][ (TickStep /\ last'.kind = "executed")
      => LET measured == now' - prevtime
             divisor == last'.accel_meas.den
         IN  /\ last'.dt_meas = measured
             /\ measured < DtMin => divisor = DtFallback
             /\ measured >= DtMin => divisor = measured
             /\ divisor >= DtMin /\ divisor # 0
             /\ last'.accel_meas.num =
                  (current_velocity_new' - current_velocity_prev') * ClockHz
             /\ prevtime' = now' ]_vars

\* C10 witness: half a millisecond was measured and 0.1 s was used
HalfMillisecondFloored ==
  /\ last.kind = "executed"
  /\ last.dt_meas = 1
  /\ last.accel_meas.den = DtFallback

\* C12. Disabled iterations keep the bookkeeping advancing: an executed
\* iteration sets the previous brake, the previous and new velocity and the
\* previous timestamp from the stored values, the command, the velocity it
\* read and the clock alone, so with the flag false it sets them exactly as
\* with the flag true; the disabled iteration differs only in publishing
\* nothing.
DisabledBookkeeping ==
  [][ (TickStep /\ last'.kind = "executed")
      => /\ brake_prev' = brake_new
         /\ brake_new' = last'.cmd.brake
         /\ current_velocity_prev' = current_velocity_new
         /\ current_velocity_new' = frame.current_linear_velocity
         /\ prevtime' = now'
         /\ last'.enabled = frame.dbw_status
         /\ ~frame.dbw_status => last'.pub = {} ]_vars

\* C12 witness: a disabled iteration moved the brake command, the velocity
\* and the timestamp into the stored fields and published nothing
DisabledTickBookkept ==
  /\ last.kind = "executed" /\ ~last.enabled
  /\ last.cmd.brake = 1 /\ brake_new = 1
  /\ current_velocity_new = 1 /\ current_velocity_prev = 0
  /\ prevtime = Period /\ prevtime = now
  /\ last.pub = {}

\* C14. Controller inputs: an executed iteration calls the
\* controller with the proposed linear and angular velocity, the current
\* linear and angular velocity, the cross-track error just computed, the
\* heading error just computed, and the enable flag, in that order.
ControllerInputsHeading ==
  [][ (TickStep /\ last'.kind = "executed")
      => last'.args = << frame.proposed_linear_velocity,
                         frame.proposed_angular_velocity,
                         frame.current_linear_velocity,
                         frame.current_angular_velocity,
                         CTE, heading_err, frame.dbw_status >> ]_vars

\* C16. Ingestion is a pure overwrite: a step of a callback stores a part of
\* its message in its own field (the pose handler the position in one step
\* and the orientation in the next); it leaves the other input fields, the
\* stored commands, the velocity bookkeeping, the previous timestamp, the
\* estimate and the locals of the loop as they were, and a change of the
\* enable flag in particular resets no stored command.
IngestionOverwrites ==
  [][ CallbackStep
      => /\ UNCHANGED << latches, bookkeeping, estimate, now, last, frame >>
         /\ finalwpts' # finalwpts
              => /\ \E msg \in LaneMsgs : finalwpts' = Some(msg)
                 /\ UNCHANGED << dbw_enabled, current_velocity, current_pose,
                                 current_orient, twist_cmd >>
         /\ dbw_enabled' # dbw_enabled
              => UNCHANGED << finalwpts, current_velocity, current_pose,
                              current_orient, twist_cmd >>
         /\ current_pose' # current_pose
              => /\ \E msg \in PoseMsgs : current_pose' = Some(Position(msg))
                 /\ UNCHANGED << finalwpts, dbw_enabled, current_velocity,
                                 current_orient, twist_cmd >>
         /\ current_orient' # current_orient
              => /\ \E msg \in PoseMsgs :
                      current_orient' = Some(Orientation(msg))
                 /\ UNCHANGED << finalwpts, dbw_enabled, current_velocity,
                                 current_pose, twist_cmd >>
         /\ current_velocity' # current_velocity
              => /\ \E msg \in VelMsgs : current_velocity' = Some(msg)
                 /\ UNCHANGED << finalwpts, dbw_enabled, current_pose,
                                 current_orient, twist_cmd >>
         /\ twist_cmd' # twist_cmd
              => /\ \E msg \in TwistMsgs : twist_cmd' = Some(msg)
                 /\ UNCHANGED << finalwpts, dbw_enabled, current_velocity,
                                 current_pose, current_orient >> ]_vars

\* C16 witness: the flag was switched off after an enabled iteration had
\* stored a brake command, a velocity and a timestamp, and they are still there
LatchSurvivesDisable ==
  /\ last.kind = "executed" /\ last.enabled /\ ~dbw_enabled
  /\ pc = "loop" /\ frame.flag_at_gate
  /\ last.cmd.brake = 1 /\ brake_new = 1
  /\ current_velocity_new = 1 /\ prevtime = Period

\* the stored value publish() compares the command of channel ch with in the
\* iteration about to end: brake_prev is first overwritten with brake_new
Compared(ch) ==
  CASE ch = "throttle" -> throttle_prev
    [] ch = "steer" -> steer_prev
    [] ch = "brake" -> brake_new

\* C17. Diagnostics do not influence actuation: in an executed iteration the
\* triple handed to the publisher and the set of channels emitted are given
\* by the enable flag read, the controller's triple and the stored commands
\* alone, and the controller's arguments by the inputs read and the estimate
\* alone; the measured time step and the stored previous velocity enter none
\* of them, so two iterations differing only in those two agree on all of
\* them.
DiagnosticsDoNotActuate ==
  [][ (TickStep /\ last'.kind = "executed")
      => /\ last'.sent = IF frame.dbw_status THEN last'.cmd ELSE NoCmd
         /\ last'.pub = {ch \in Channels :
                           frame.dbw_status /\ Compared(ch) # last'.cmd[ch]}
         /\ SubSeq(last'.args, 1, 4) =
              << frame.proposed_linear_velocity,
                 frame.proposed_angular_velocity,
                 frame.current_linear_velocity,
                 frame.current_angular_velocity >>
         /\ last'.args[5] = CTE
         /\ last'.args[6] = frame.proposed_angular_velocity
         /\ last'.args[7] = frame.dbw_status ]_vars

\* C17 witness: an enabled iteration measured a positive acceleration over
\* the floored time step and handed the controller's brake command on as is
BrakeSentWhileAccelerating ==
  /\ last.kind = "executed" /\ last.enabled
  /\ last.accel_meas.num > 0 /\ last.accel_meas.den = DtFallback
  /\ last.cmd.brake = 1 /\ last.sent = last.cmd
  /\ "brake" \in last.pub

\* C19. Enable-flag snapshot: within one executed iteration the enable value
\* passed to the controller and the enable value that gates publishing are
\* the single value read at line 94, whatever the flag became afterwards.
EnableFlagSnapshot ==
  (pc = "loop" /\ last.kind = "executed")
  => /\ last.args[7] = frame.dbw_status
     /\ last.enabled = frame.dbw_status
     /\ last.pub # {} => last.args[7]

\* C19 witness: the flag was switched off between line 94 and line 129 of an
\* iteration that told the controller it was on, and the iteration published
FlagSwitchedOffMidIteration ==
  /\ pc = "loop" /\ last.kind = "executed"
  /\ frame.dbw_status /\ ~frame.flag_at_gate
  /\ last.args[7] /\ last.enabled /\ last.pub # {}

(* ---------------- properties of the actuator topics (SpecWire) -------- *)

\* C18. Actuator consistency: at the end of every enabled executed
\* iteration the value most recently emitted on each channel, 0 if none was
\* ever emitted, equals the value the controller commanded in that iteration.
\* (last and emitted change at the end of an iteration only, so the state
\* after an iteration shows until the end of the next one.)
ActuatorConsistency ==
  (last.kind = "executed" /\ last.enabled)
  => \A ch \in Channels : emitted[ch] = last.cmd[ch]

(* ---------------- properties of the estimator (SpecCTE) ---------------- *)

\* the waypoints in the local frame as Compute_CTE built them
LocalPoints == 1..Len(body.x)

\* the vector v turned counter-clockwise by q quarter turns
Rot4(v, q) ==
  CASE q % 4 = 0 -> v
    [] q % 4 = 1 -> << -v[2], v[1] >>
    [] q % 4 = 2 -> << -v[1], -v[2] >>
    [] OTHER -> << v[2], -v[1] >>

\* waypoint i of the stored path minus the stored position
Offset(i) ==
  << Val(finalwpts)[i].x - Val(current_pose).x,
     Val(finalwpts)[i].y - Val(current_pose).y >>

\* C9. Clamping: for every result of the fit, whatever its d and c, the CTE
\* that the estimator returns and that is passed to the controller lies
\* within [-5, 5]: it is d when d lies within, 5 when d is above and -5 when
\* d is below; and the heading error returned is atan2(c, 1) and lies within
\* [-pi/2, pi/2].
Clamping ==
  pc \in {"estimated", "controlled"} =>
     LET d == Milli(last.fit.d)
     IN  /\ CTE # NaN /\ CTE >= -CTELimit /\ CTE <= CTELimit
         /\ (d # NaN /\ d >= -CTELimit /\ d <= CTELimit) => CTE = d
         /\ (d # NaN /\ d > CTELimit) => CTE = CTELimit
         /\ (d # NaN /\ d < -CTELimit) => CTE = -CTELimit
         /\ heading_err # NaN
         /\ heading_err >= -HalfPi /\ heading_err <= HalfPi
         /\ heading_err = atan2_1(last.fit.c)
         /\ pc = "controlled" => last.args[5] = CTE

\* C13. Straight-ahead path: when at least four waypoints all have local
\* y = 0 and distinct positive local x, the estimator returns a cross-track
\* error of 0 and a heading error of 0.
StraightAheadIsZero ==
  ( /\ pc = "estimated"
    /\ Len(body.x) >= 4
    /\ \A i \in LocalPoints : body.y[i] = 0 /\ body.x[i] > 0
    /\ \A i, j \in LocalPoints : i # j => body.x[i] # body.x[j] )
  => CTE = 0 /\ heading_err = 0

\* C13 witness: a car at the origin facing +x was given the path along +x and
\* the estimator returned zeros
StraightAheadSeen ==
  /\ pc = "estimated"
  /\ Val(current_orient) = Quat(0)
  /\ body.x = << 1, 2, 3, 4 >> /\ body.y = << 0, 0, 0, 0 >>
  /\ CTE = 0 /\ heading_err = 0

\* C15 as stated. Local-frame transform: every local pair is the waypoint
\* minus the current position, turned by the negation of the sign-flipped
\* yaw, which is the yaw of the orientation itself.
LocalFrameNegatedFlippedYaw ==
  pc = "estimated"
  => \A i \in LocalPoints :
       << body.x[i], body.y[i] >> = Rot4(Offset(i), euler_yaw(Val(current_orient)))

\* C15 amended. Local-frame transform: every local pair is the waypoint minus
\* the current position, turned by the sign-flipped yaw, which is the negation
\* of the yaw of the orientation.
LocalFrameFlippedYaw ==
  pc = "estimated"
  => /\ Len(body.x) = Len(Val(finalwpts)) /\ Len(body.y) = Len(Val(finalwpts))
     /\ \A i \in LocalPoints :
          << body.x[i], body.y[i] >> =
            Rot4(Offset(i), -1 * euler_yaw(Val(current_orient)))

\* C15 witness: from (5, 1) facing +y the bent path was seen to the right
\* and behind
QuarterTurnSeen ==
  /\ pc = "estimated"
  /\ Val(current_pose) = [x |-> 5, y |-> 1] /\ Val(current_orient) = Quat(1)
  /\ Val(finalwpts) = PathBend
  /\ body.x = << 0, 1, 3, 6 >> /\ body.y = << 4, 3, 2, 1 >>

(* ---------------- properties of the reads (SpecSteps) ---------------- *)

\* the iteration in progress has read the position and the orientation and
\* is about to use them
PoseRead == pc = "l192"

\* C11. Pose snapshot consistency: the x, the y and the orientation that one
\* computation of the deviations uses all come from the same pose update.
PoseSnapshotConsistent ==
  PoseRead
  => \E msg \in StepPoseMsgs :
       /\ frame.global_car_x = msg.x
       /\ frame.global_car_y = msg.y
       /\ frame.z = msg.z
       /\ frame.w = msg.w

====
